---- MODULE Spec2Model ----
(***************************************************************************)
(* py-agent-dashboard: the self-healing execution engine (runner.py) and   *)
(* the reconciler of script storage and schedule store (dashboard.py).     *)
(***************************************************************************)
EXTENDS Integers, Sequences, FiniteSets, TLC

VARIABLES
  ALLOW_AUTO_INSTALL, \* runner.py:9, configuration flag
  IS_ROOT,            \* runner.py:11, os.geteuid() == 0
  MAX_PASSES,         \* runner.py:12, int(RUNNER_MAX_PASSES)
  RUN_CONTEXT,        \* os.environ.get("RUN_CONTEXT") of the engine process
  launcher,           \* who spawned the engine: "cron" or "coordinator"
  config,             \* config/<name>.json as read_run_until_success found it
  pc,                 \* position of main(): start, usage (exited on the usage
                      \* error), preflight, crashed (ended by an exception that
                      \* left ensure_importables), loop, policy, exited
  todo,               \* modules ensure_importables has still to visit
  passes,             \* run_until_stable: passes
  attempts,           \* one ExecutionAttempt per pass, in order
  install,            \* installation commands run by the latest step
  rc,                 \* value returned by run_until_stable
  exitCode,           \* status the engine process exits with
  policy,             \* what the post-success block of main() did: unreached,
                      \* skipped, disabled, disabled_event_lost (log_event
                      \* could not write), failed (the removal raised)
  crontab,            \* the user's crontab: the external schedule store
  events,             \* logs/events.log
  scripts,            \* stems of the *.py files in SCRIPTS_DIR
  user_cron,          \* dashboard.py:10, the CronTab object of the dashboard
  jobs,               \* the list rebuild_jobs returned last
  listed,             \* whether rebuild_jobs has run
  previous,           \* the list of the call of rebuild_jobs before the latest,
                      \* when nothing rebuild_jobs reads was changed in between
  script,             \* the script file main() is about to parse; NoScript once
                      \* it is parsed: what a pass of the script does is drawn
                      \* from ScriptOutcomes
  resolution,         \* the latest call of the resolver on its own
  logs,               \* logs/<name>.log: modification time of each file, in ticks
  content,            \* what each file of SCRIPTS_DIR holds
  response,           \* what the latest request handler answered
  clock,              \* time.time(), in ticks
  run                 \* run_now: its position (idle, polling, done), the job, prev
                      \* and the modification time it was taken from (-1: no
                      \* file), the time of the launch, deadline, and the
                      \* number of engine processes spawned

vars == <<ALLOW_AUTO_INSTALL, IS_ROOT, MAX_PASSES, RUN_CONTEXT, launcher, config,
          pc, todo, passes, attempts, install, rc, exitCode, policy, crontab,
          events, scripts, user_cron, jobs, listed, previous, script, resolution, logs,
          content, response, clock, run>>

engineVars == <<ALLOW_AUTO_INSTALL, IS_ROOT, MAX_PASSES, RUN_CONTEXT, launcher,
                config, pc, todo, passes, attempts, install, rc, exitCode, policy,
                events, script, resolution>>

dashVars == <<scripts, user_cron, jobs, listed, previous, logs, content, response, clock, run>>

None == "None"

\* ---------------------------------------------------------------- bounds
MaxCap == 3       \* largest RUNNER_MAX_PASSES explored
MaxEntries == 2   \* longest schedule store explored

\* ---------------------------------------------------------------- helpers
\* a directory without files
NoFiles == <<>>

\* what a request handler answers: the status of the response and the message
\* it flashes or renders
Response(handler, status, flash) == [handler |-> handler, status |-> status, flash |-> flash]
NoResponse == Response("", 0, "")

\* no earlier call of rebuild_jobs to compare the latest with
NoListing == [seen |-> FALSE, jobs |-> <<>>]

\* no request to run_now so far
NoRun == [pc |-> "idle", name |-> "", prev |-> 0, mtime |-> -1, start |-> 0, deadline |-> 0,
          spawned |-> 0]

\* no script is waiting to be parsed
NoScript == [long |-> FALSE, hint |-> <<>>, imports |-> <<>>, parses |-> FALSE]

\* the resolver has not been called on its own
NoResolution ==
  [missing |-> <<>>, env |-> <<>>, ok |-> FALSE, raised |-> FALSE, steps |-> <<>>]

Max0(n) == IF n < 0 THEN 0 ELSE n

SeqsUpTo(S, n) == UNION {[1..k -> S] : k \in 0..n}

RECURSIVE IndexOf(_, _, _)
\* position of the first element c of s at or after i, 0 when there is none
IndexOf(s, c, i) ==
  IF i > Len(s) THEN 0
  ELSE IF s[i] = c THEN i
  ELSE IndexOf(s, c, i + 1)

\* modname.split(".")[0]
Top(modname) ==
  LET d == IndexOf(modname, ".", 1)
  IN IF d = 0 THEN modname ELSE SubSeq(modname, 1, d - 1)

\* s.replace("_", "-")
Hyphenate(s) == [i \in 1..Len(s) |-> IF s[i] = "_" THEN "-" ELSE s[i]]

\* identifiers a failure or a script header can name, as character sequences
Idents == { <<"y">>, <<"m", "_", "x", ".", "z">> }

\* ------------------------------------------------- DependencyResolver
\* what one resolution finds: the module globals, the answer of ensure_pip(),
\* is_externally_managed() and in_venv(), the return code of pip and the import
\* probe after each candidate, whether there is an apt-get to execute, the
\* return codes of the two apt-get installs and the import probe after them
InstallEnvs ==
  [ ALLOW_AUTO_INSTALL : BOOLEAN,
    IS_ROOT    : BOOLEAN,
    ensure_pip : BOOLEAN,
    managed    : BOOLEAN,
    venv       : BOOLEAN,
    pipRc      : [1..2 -> BOOLEAN],
    pipProbe   : [1..2 -> BOOLEAN],
    aptGet     : BOOLEAN,
    aptRc1     : BOOLEAN,
    aptRc2     : BOOLEAN,
    aptProbe   : BOOLEAN ]

NoInstall == [pip |-> <<>>, apt |-> 0, upd |-> 0]

\* one command or import probe of a resolution, and whether it succeeded
Step(tool, flags, arg, ok) == [tool |-> tool, flags |-> flags, arg |-> arg, ok |-> ok]

\* the flags pip_install adds to base
pip_base(env) ==
  LET override == IF env.managed /\ ~env.venv THEN {"--break-system-packages"} ELSE {}
  IN override \cup (IF ~env.IS_ROOT /\ "--break-system-packages" \notin override
                    THEN {"--user"} ELSE {})

\* candidates = [top] + ([top.replace("_", "-")] if "_" in top else [])
Candidates(pkg) ==
  LET top == Top(pkg)
  IN <<top>> \o (IF IndexOf(top, "_", 1) # 0 THEN <<Hyphenate(top)>> ELSE <<>>)

RECURSIVE PipLoop(_, _, _)
\* the for loop of pip_install from candidate i: the candidates handed to pip,
\* whether one of them installed and then imported, and the steps taken; the
\* probe imports top, which is the first candidate
PipLoop(cands, env, i) ==
  IF i > Len(cands) THEN [ok |-> FALSE, pip |-> <<>>, steps |-> <<>>]
  ELSE LET cmd == Step("pip", pip_base(env), cands[i], env.pipRc[i])
           probe == Step("import", {}, cands[1], env.pipProbe[i])
       IN IF env.pipRc[i] /\ env.pipProbe[i]
          THEN [ok |-> TRUE, pip |-> <<cands[i]>>, steps |-> <<cmd, probe>>]
          ELSE LET rest == PipLoop(cands, env, i + 1)
               IN [ ok |-> rest.ok, pip |-> <<cands[i]>> \o rest.pip,
                    steps |-> (IF env.pipRc[i] THEN <<cmd, probe>> ELSE <<cmd>>)
                              \o rest.steps ]

pip_install(pkg, env) ==
  IF ~env.ALLOW_AUTO_INSTALL THEN [ok |-> FALSE, pip |-> <<>>, steps |-> <<>>]
  ELSE IF ~env.ensure_pip THEN [ok |-> FALSE, pip |-> <<>>, steps |-> <<>>]
  ELSE PipLoop(Candidates(pkg), env, 1)

\* APT_MAP.get(name, f"python3-{name.replace('_','-')}"); APT_MAP holds none of
\* the identifiers of this model
apt_package(modname) == <<"python3-">> \o Hyphenate(Top(modname))

\* subprocess.call raises FileNotFoundError when there is no apt-get, and
\* nothing in apt_install_for catches it
apt_install_for(modname, env) ==
  LET install1 == Step("apt-get install", {}, apt_package(modname), env.aptRc1)
      update == Step("apt-get update", {}, <<>>, TRUE)
      install2 == Step("apt-get install", {}, apt_package(modname), env.aptRc2)
      probe == Step("import", {}, Top(modname), env.aptProbe)
  IN IF ~env.IS_ROOT
     THEN [ok |-> FALSE, raised |-> FALSE, apt |-> 0, upd |-> 0, steps |-> <<>>]
     ELSE IF ~env.aptGet
     THEN [ok |-> FALSE, raised |-> TRUE, apt |-> 0, upd |-> 0, steps |-> <<>>]
     ELSE IF env.aptRc1
     THEN [ ok |-> env.aptProbe, raised |-> FALSE, apt |-> 1, upd |-> 0,
            steps |-> <<install1, probe>> ]
     ELSE [ ok |-> env.aptRc2 /\ env.aptProbe, raised |-> FALSE, apt |-> 2, upd |-> 1,
            steps |-> <<install1, update, install2>>
                      \o (IF env.aptRc2 THEN <<probe>> ELSE <<>>) ]

\* pip_install(missing) first, apt_install_for(missing) only when it returned False
Resolve(missing, env) ==
  LET p == pip_install(missing, env)
      a == apt_install_for(missing, env)
  IN IF p.ok
     THEN [ ok |-> TRUE, raised |-> FALSE, pip |-> p.pip, apt |-> 0, upd |-> 0,
            steps |-> p.steps ]
     ELSE [ ok |-> a.ok, raised |-> a.raised, pip |-> p.pip, apt |-> a.apt, upd |-> a.upd,
            steps |-> p.steps \o a.steps ]

\* what the engine goes on with after a resolution
Outcome(r) == [ok |-> r.ok, raised |-> r.raised, pip |-> r.pip, apt |-> r.apt, upd |-> r.upd]

\* the outcomes that are possible for each identifier and each value of the
\* two module globals
ResolveTable ==
  [ m \in Idents |->
    [ allow \in BOOLEAN |->
      [ root \in BOOLEAN |->
        { Outcome(Resolve(m, env)) :
            env \in {e \in InstallEnvs : e.ALLOW_AUTO_INSTALL = allow /\ e.IS_ROOT = root} } ] ] ]

ResolveResults(missing) == ResolveTable[missing][ALLOW_AUTO_INSTALL][IS_ROOT]

Trace(r) == [pip |-> r.pip, apt |-> r.apt, upd |-> r.upd]

\* the ImportError a pass can end in: its name attribute and the module its
\* message names ("No module named '...'"); <<>> stands for an absent one
ImportErrors == [name : Idents \cup {<<>>}, msg : Idents \cup {<<>>}]

\* <<>> is the None of the code
missing_from_exc(exc) == IF exc.name # <<>> THEN exc.name ELSE exc.msg

\* ------------------------------------------------------- schedule store
\* a command token: the directory it lies in ("scripts" when the token contains
\* str(SCRIPTS_DIR)), Path(tok).stem and the extension tok.endswith tests
ScriptTok(n) == [dir |-> "scripts", stem |-> n, ext |-> "py"]
LogTok(n) == [dir |-> "logs", stem |-> n, ext |-> "log"]
RunnerTok == [dir |-> "base", stem |-> "runner", ext |-> "py"]
Word(w) == [dir |-> "", stem |-> w, ext |-> ""]

\* f"{RUNNER} {script_path} >> {LOGS_DIR}/{name}.log 2>&1"
RunnerCommand(n) ==
  <<Word("/usr/bin/python3"), RunnerTok, ScriptTok(n), Word(">>"), LogTok(n), Word("2>&1")>>

Entry(cmd, tag, expr) == [command |-> cmd, tag |-> tag, expression |-> expr]

\* the job the engine runs: Path(script_path).stem
name == "a"

LineMatches_inverted(e, comment) == e.tag # comment
\* pat.match(ln) for pat = .*#\s*<comment>\s*$ on the line of an entry, which
\* ends in "# <tag>" when the entry has a tag and holds no "#" otherwise
LineMatches(e, comment) == e.tag # "" /\ e.tag = comment

\* the outcome of disable_cron_by_comment: whether it raised and the store it left
disable_cron_by_comment(comment, store, readRes, writeRes) ==
  IF readRes = "error" THEN [raised |-> TRUE, store |-> store]
  ELSE LET cur == IF readRes = "ok" THEN store ELSE <<>>
           kept == SelectSeq(cur, LAMBDA e : ~LineMatches(e, comment))
       IN IF writeRes = "ok" THEN [raised |-> FALSE, store |-> kept]
          ELSE [raised |-> TRUE, store |-> store]

\* config/<name>.json: no file, a file that is no JSON object, an object
\* without the key, or one with run_until_success true or false
Configs == { "nofile", "malformed", "nokey", "true", "false" }

\* bool(cfg.get("run_until_success", False)), False on any exception
read_run_until_success(cfg) == cfg = "true"

\* ------------------------------------------------------ ExecutionEngine
\* a script: whether it has 40 lines or more, the identifiers of the
\* "requirements:" line of its first 40 lines, the modules it imports and
\* whether ast.parse accepts it
Stdlib == { <<"o", "s">> }
ScriptSources ==
  [ long    : BOOLEAN,
    hint    : SeqsUpTo(Idents, 1),
    imports : SeqsUpTo({<<"y">>, <<"o", "s">>}, 1),
    parses  : BOOLEAN ]

parse_requirements_header(src) == IF src.long THEN src.hint ELSE <<>>

parse_imports(src) ==
  IF src.parses
  THEN SelectSeq([i \in 1..Len(src.imports) |-> Top(src.imports[i])],
                 LAMBDA m : m \notin Stdlib)
  ELSE <<>>

\* what runpy.run_path can end in
ExitInts == { -1, 0, 1, 7 }
ScriptOutcomes ==
  [kind : {"ok", "crash"}, exc : {[name |-> <<>>, msg |-> <<>>]}, codeKind : {"na"}, code : {0}]
  \cup [kind : {"import_error"}, exc : ImportErrors, codeKind : {"na"}, code : {0}]
  \cup [kind : {"exit"}, exc : {[name |-> <<>>, msg |-> <<>>]}, codeKind : {"int"}, code : ExitInts]
  \cup [kind : {"exit"}, exc : {[name |-> <<>>, msg |-> <<>>]}, codeKind : {"none", "other"}, code : {0}]

Attempt(n, out, missing, outcome) ==
  [ passNumber |-> n, kind |-> out.kind, missingDependency |-> missing,
    installOutcome |-> outcome, codeKind |-> out.codeKind, code |-> out.code ]

\* os.environ of the dashboard process, and the copy _launch_job hands the engine
DashboardEnviron == [RUN_CONTEXT |-> None, PYTHONUNBUFFERED |-> None]
launch_job_env == [DashboardEnviron EXCEPT !.PYTHONUNBUFFERED = "1"]

EngineInit ==
  /\ ALLOW_AUTO_INSTALL \in BOOLEAN
  /\ IS_ROOT \in BOOLEAN
  /\ MAX_PASSES \in -1..MaxCap
  /\ launcher \in {"cron", "coordinator"}
  /\ RUN_CONTEXT \in IF launcher = "coordinator" THEN {launch_job_env.RUN_CONTEXT}
                                                    ELSE {"cron", None}
  /\ config = "unread"
  /\ pc = "start"
  /\ todo = <<>>
  /\ passes = 0
  /\ attempts = <<>>
  /\ install = NoInstall
  /\ rc = 0
  /\ exitCode = 0
  /\ policy = "unreached"
  /\ events = <<>>
  /\ script \in ScriptSources
  /\ resolution = NoResolution

\* main(), down to the call of ensure_importables
Start ==
  /\ pc = "start"
  /\ \E hasArg \in BOOLEAN :
       IF ~hasArg
       THEN /\ pc' = "usage"
            /\ exitCode' = 2
            /\ todo' = todo
            /\ script' = script
       ELSE /\ todo' = parse_requirements_header(script) \o parse_imports(script)
            /\ pc' = IF todo' = <<>> THEN "loop" ELSE "preflight"
            /\ exitCode' = exitCode
            /\ script' = NoScript
  /\ UNCHANGED <<ALLOW_AUTO_INSTALL, IS_ROOT, MAX_PASSES, RUN_CONTEXT, launcher, config,
                 passes, attempts, install, rc, policy, crontab, events, resolution>>
  /\ UNCHANGED dashVars

\* one iteration of the loop of ensure_importables; an exception that leaves
\* apt_install_for leaves ensure_importables and main() too, and the process
\* ends with status 1 (pc = "crashed")
PreflightStep ==
  /\ pc = "preflight"
  /\ todo # <<>>
  /\ todo' = Tail(todo)
  /\ \E importable \in BOOLEAN :
       IF importable
       THEN /\ install' = NoInstall
            /\ pc' = IF todo' = <<>> THEN "loop" ELSE "preflight"
            /\ exitCode' = exitCode
       ELSE \E r \in ResolveResults(Head(todo)) :
              /\ install' = Trace(r)
              /\ IF r.raised
                 THEN /\ pc' = "crashed"
                      /\ exitCode' = 1
                 ELSE /\ pc' = IF todo' = <<>> THEN "loop" ELSE "preflight"
                      /\ exitCode' = exitCode
  /\ UNCHANGED <<ALLOW_AUTO_INSTALL, IS_ROOT, MAX_PASSES, RUN_CONTEXT, launcher, config,
                 passes, attempts, rc, policy, crontab, events, script, resolution>>
  /\ UNCHANGED dashVars

more_passes_early(p, cap) == p + 1 < cap
more_passes_inclusive(p, cap) == p <= cap
\* while passes < MAX_PASSES
more_passes(p, cap) == p < cap

retries_always(r) == TRUE
\* if installed: continue; otherwise the ImportError is raised again
retries(r) == r.ok

exit_status_truthy(codeKind, code) ==
  IF codeKind = "none" \/ (codeKind = "int" /\ code = 0) THEN 0 ELSE 1
\* except SystemExit: None gives 0, an int gives itself, anything else 1
exit_status(codeKind, code) ==
  IF codeKind = "none" THEN 0
  ELSE IF codeKind = "int" THEN code
  ELSE 1

post_success_any_context(ctx, code, cfg) == code = 0 /\ cfg = "true"
\* the condition of the post-success block
post_success_applies(ctx, code, cfg) ==
  ctx = "cron" /\ code = 0 /\ read_run_until_success(cfg)

\* "and" evaluates read_run_until_success(name) only when its first two
\* operands hold
config_is_read(ctx, code) == ctx = "cron" /\ code = 0

final_status_propagates(code, raised) == IF raised THEN 1 ELSE code
\* sys.exit(rc) at the end of main(): an exception of the post-success block
\* has been caught and logged
final_status(code, raised) == code

\* one iteration of the while loop of run_until_stable; an exception that
\* leaves run_until_stable (the ImportError raised again, or the one
\* apt_install_for raised) leaves main() too and ends the process with status 1
RunPass ==
  /\ pc = "loop"
  /\ more_passes(passes, MAX_PASSES)
  /\ passes' = passes + 1
  /\ \E out \in ScriptOutcomes :
       LET missing == IF out.kind = "import_error" THEN missing_from_exc(out.exc) ELSE <<>>
       IN CASE out.kind = "ok" ->
                 /\ attempts' = Append(attempts, Attempt(passes', out, <<>>, "none"))
                 /\ install' = NoInstall
                 /\ rc' = 0
                 /\ pc' = "policy"
                 /\ exitCode' = exitCode
            [] out.kind = "import_error" /\ missing = <<>> ->
                 /\ attempts' = Append(attempts, Attempt(passes', out, <<>>, "none"))
                 /\ install' = NoInstall
                 /\ rc' = rc
                 /\ pc' = "exited"
                 /\ exitCode' = 1
            [] out.kind = "import_error" /\ missing # <<>> ->
                 \E r \in ResolveResults(missing) :
                   /\ install' = Trace(r)
                   /\ rc' = rc
                   /\ attempts' = Append(attempts,
                        Attempt(passes', out, missing, IF r.ok THEN "installed" ELSE "failed"))
                   /\ IF retries(r)
                      THEN /\ pc' = "loop"
                           /\ exitCode' = exitCode
                      ELSE /\ pc' = "exited"
                           /\ exitCode' = 1
            [] out.kind = "exit" ->
                 /\ attempts' = Append(attempts, Attempt(passes', out, <<>>, "none"))
                 /\ install' = NoInstall
                 /\ rc' = exit_status(out.codeKind, out.code)
                 /\ pc' = "policy"
                 /\ exitCode' = exitCode
            [] out.kind = "crash" ->
                 /\ attempts' = Append(attempts, Attempt(passes', out, <<>>, "none"))
                 /\ install' = NoInstall
                 /\ rc' = 1
                 /\ pc' = "policy"
                 /\ exitCode' = exitCode
  /\ UNCHANGED <<ALLOW_AUTO_INSTALL, IS_ROOT, MAX_PASSES, RUN_CONTEXT, launcher, config,
                 todo, policy, crontab, events, script, resolution>>
  /\ UNCHANGED dashVars

\* the while condition fails: "max passes reached", return 1
LoopExhausted ==
  /\ pc = "loop"
  /\ ~more_passes(passes, MAX_PASSES)
  /\ rc' = 1
  /\ pc' = "policy"
  /\ install' = NoInstall
  /\ UNCHANGED <<ALLOW_AUTO_INSTALL, IS_ROOT, MAX_PASSES, RUN_CONTEXT, launcher, config,
                 todo, passes, attempts, exitCode, policy, crontab, events, script,
                 resolution>>
  /\ UNCHANGED dashVars

Event(kind, n) == [kind |-> kind, name |-> n]

\* log_event: appends one record, and swallows a failure to write it
log_event(log, kind, n, writable) == IF writable THEN Append(log, Event(kind, n)) ELSE log

\* main() after run_until_stable has returned rc: the post-success block, sys.exit(rc)
Finish ==
  /\ pc = "policy"
  /\ \E cfg \in Configs :
       /\ config' = IF config_is_read(RUN_CONTEXT, rc) THEN cfg ELSE config
       /\ IF post_success_applies(RUN_CONTEXT, rc, cfg)
          THEN \E readRes \in {"ok", "called_process_error", "error"},
                  writeRes \in {"ok", "called_process_error"},
                  writable \in BOOLEAN :
                 LET d == disable_cron_by_comment(name, crontab, readRes, writeRes)
                 IN /\ crontab' = d.store
                    /\ exitCode' = final_status(rc, d.raised)
                    /\ IF d.raised
                       THEN /\ events' = events
                            /\ policy' = "failed"
                       ELSE /\ events' = log_event(events, "schedule_disabled_after_success",
                                                   name, writable)
                            /\ policy' = IF writable THEN "disabled" ELSE "disabled_event_lost"
          ELSE /\ crontab' = crontab
               /\ events' = events
               /\ policy' = "skipped"
               /\ exitCode' = rc
  /\ pc' = "exited"
  /\ install' = NoInstall
  /\ UNCHANGED <<ALLOW_AUTO_INSTALL, IS_ROOT, MAX_PASSES, RUN_CONTEXT, launcher,
                 todo, passes, attempts, rc, script, resolution>>
  /\ UNCHANGED dashVars

\* the entries the engine can find in the crontab: tagged with its job or
\* with another job
EngineEntries ==
  { Entry(RunnerCommand("a"), "a", "e1"), Entry(RunnerCommand("b"), "b", "e1") }

Init ==
  /\ EngineInit
  /\ crontab \in SeqsUpTo(EngineEntries, MaxEntries)
  /\ scripts = {}
  /\ user_cron = <<>>
  /\ jobs = <<>>
  /\ listed = FALSE
  /\ previous = NoListing
  /\ logs = NoFiles
  /\ content = NoFiles
  /\ response = NoResponse
  /\ clock = 0
  /\ run = NoRun

Next == Start \/ PreflightStep \/ RunPass \/ LoopExhausted \/ Finish

Spec == Init /\ [][Next]_vars

\* ------------------------------------------------ the resolver on its own
\* the expression "pip_install(missing) or apt_install_for(missing)" of
\* ensure_importables and run_until_stable, applied once to an identifier on a
\* machine: resolution keeps what it returned and every step it took
ResolveOnce ==
  /\ resolution = NoResolution
  /\ \E missing \in Idents, env \in InstallEnvs :
       /\ env.ALLOW_AUTO_INSTALL = ALLOW_AUTO_INSTALL
       /\ env.IS_ROOT = IS_ROOT
       /\ LET r == Resolve(missing, env)
          IN resolution' = [ missing |-> missing,
                             env |-> [managed |-> env.managed, venv |-> env.venv],
                             ok |-> r.ok, raised |-> r.raised, steps |-> r.steps ]
  /\ UNCHANGED <<ALLOW_AUTO_INSTALL, IS_ROOT, MAX_PASSES, RUN_CONTEXT, launcher, config,
                 pc, todo, passes, attempts, install, rc, exitCode, policy, crontab,
                 events, script>>
  /\ UNCHANGED dashVars

ResolveInit ==
  /\ ALLOW_AUTO_INSTALL \in BOOLEAN
  /\ IS_ROOT \in BOOLEAN
  /\ MAX_PASSES = 0
  /\ launcher = "cron"
  /\ RUN_CONTEXT = None
  /\ config = "unread"
  /\ pc = "loop"
  /\ todo = <<>>
  /\ passes = 0
  /\ attempts = <<>>
  /\ install = NoInstall
  /\ rc = 0
  /\ exitCode = 0
  /\ policy = "unreached"
  /\ events = <<>>
  /\ script = NoScript
  /\ resolution = NoResolution
  /\ crontab = <<>>
  /\ scripts = {}
  /\ user_cron = <<>>
  /\ jobs = <<>>
  /\ listed = FALSE
  /\ previous = NoListing
  /\ logs = NoFiles
  /\ content = NoFiles
  /\ response = NoResponse
  /\ clock = 0
  /\ run = NoRun

ResolveNext == ResolveOnce

SpecResolve == ResolveInit /\ [][ResolveNext]_vars

\* ------------------------------------------------------------ Reconciler
\* str order of the names of this model
StrOrder == <<"a", "a.", "a_", "b", "c">>
Rank(n) == IndexOf(StrOrder, n, 1)

RECURSIVE insertion_order(_)
insertion_order(keys) ==
  IF keys = {} THEN <<>>
  ELSE LET m == CHOOSE x \in keys : \A y \in keys : Rank(x) >= Rank(y)
       IN <<m>> \o insertion_order(keys \ {m})

RECURSIVE sorted(_)
\* sorted(jobs.keys())
sorted(keys) ==
  IF keys = {} THEN <<>>
  ELSE LET m == CHOOSE x \in keys : \A y \in keys : Rank(x) <= Rank(y)
       IN <<m>> \o sorted(keys \ {m})

NoPath == Word("")

\* str(SCRIPTS_DIR) in job.command
references_scripts(job) == \E i \in 1..Len(job.command) : job.command[i].dir = "scripts"

\* the first token that ends in ".py", NoPath when there is none
RECURSIVE first_py_token(_, _)
first_py_token(cmd, i) ==
  IF i > Len(cmd) THEN NoPath
  ELSE IF cmd[i].ext = "py" THEN cmd[i]
  ELSE first_py_token(cmd, i + 1)

\* the comment when there is one, else the stem of the first token that ends in
\* ".py" and contains str(SCRIPTS_DIR); "" is the None of the code
name_from_cron(job) ==
  IF job.tag # "" THEN job.tag
  ELSE LET toks == SelectSeq(job.command, LAMBDA t : t.ext = "py" /\ t.dir = "scripts")
       IN IF toks # <<>> THEN toks[1].stem ELSE ""

\* a tick is one RUN_WAIT_STEP, a quarter of a second
TicksPerSecond == 4

\* int(os.path.getmtime(filepath)), -1 standing for the None of a missing file
last_modified_epoch(lg, n) == IF n \in DOMAIN lg THEN lg[n] \div TicksPerSecond ELSE -1

\* strftime("%Y-%m-%d %H:%M:%S") of the modification time: the text names the
\* second; <<>> stands for None
fmt_mtime(lg, n) == IF n \in DOMAIN lg THEN <<lg[n] \div TicksPerSecond>> ELSE <<>>

script_record(n, lg) ==
  [ name |-> n, script_path |-> ScriptTok(n), has_script |-> TRUE, has_cron |-> FALSE,
    schedule |-> None, last_run |-> fmt_mtime(lg, n),
    last_run_epoch |-> last_modified_epoch(lg, n), log_path |-> LogTok(n) ]

orphan_record_script_token(n, job, lg) ==
  [ name |-> n,
    script_path |-> LET toks == SelectSeq(job.command, LAMBDA t : t.dir = "scripts")
                    IN IF toks # <<>> THEN toks[1] ELSE NoPath,
    has_script |-> FALSE, has_cron |-> TRUE, schedule |-> job.expression,
    last_run |-> fmt_mtime(lg, n), last_run_epoch |-> last_modified_epoch(lg, n),
    log_path |-> LogTok(n) ]
orphan_record(n, job, lg) ==
  [ name |-> n, script_path |-> first_py_token(job.command, 1), has_script |-> FALSE,
    has_cron |-> TRUE, schedule |-> job.expression, last_run |-> fmt_mtime(lg, n),
    last_run_epoch |-> last_modified_epoch(lg, n), log_path |-> LogTok(n) ]

merge_entry_first_wins(d, job, lg) ==
  IF ~references_scripts(job) THEN d
  ELSE LET n == name_from_cron(job)
       IN IF n = "" THEN d
          ELSE IF n \notin DOMAIN d
          THEN [k \in DOMAIN d \cup {n} |-> IF k = n THEN orphan_record(n, job, lg) ELSE d[k]]
          ELSE IF d[n].has_cron THEN d
          ELSE [d EXCEPT ![n].has_cron = TRUE, ![n].schedule = job.expression]
\* the body of the loop over user_cron: d is the jobs dict
merge_entry(d, job, lg) ==
  IF ~references_scripts(job) THEN d
  ELSE LET n == name_from_cron(job)
       IN IF n = "" THEN d
          ELSE IF n \notin DOMAIN d
          THEN [k \in DOMAIN d \cup {n} |-> IF k = n THEN orphan_record(n, job, lg) ELSE d[k]]
          ELSE [d EXCEPT ![n].has_cron = TRUE, ![n].schedule = job.expression]

RECURSIVE merge_all(_, _, _, _)
merge_all(d, cron, i, lg) ==
  IF i > Len(cron) THEN d ELSE merge_all(merge_entry(d, cron[i], lg), cron, i + 1, lg)

\* files: the stems of SCRIPTS_DIR.glob("*.py"), cron: the entries of user_cron,
\* lg: the log files
rebuild_jobs(files, cron, lg) ==
  LET seeded == [n \in files |-> script_record(n, lg)]
      merged == merge_all(seeded, cron, 1, lg)
      keys == sorted(DOMAIN merged)
  IN [k \in 1..Len(keys) |-> merged[keys[k]]]

\* index(): the listing request
Index ==
  /\ jobs' = rebuild_jobs(scripts, user_cron, logs)
  /\ listed' = TRUE
  /\ previous' = IF listed THEN [seen |-> TRUE, jobs |-> jobs] ELSE NoListing
  /\ response' = Response("index", 200, "")
  /\ UNCHANGED <<scripts, user_cron, crontab, logs, content, clock, run>>
  /\ UNCHANGED engineVars

\* the log directory of the listings: no file, or files of different ages
LogDirs == { NoFiles, [n \in {"a"} |-> 6], [n \in {"a", "c"} |-> IF n = "a" THEN 6 ELSE 9] }

\* the schedule entries a crontab can hold: tagged or not, written by edit(),
\* running a script directly, naming only the directory, or foreign
DirectCommand(n) == <<Word("/usr/bin/python3"), ScriptTok(n)>>
DirCommand == <<Word("cd"), [dir |-> "scripts", stem |-> "", ext |-> ""]>>
ForeignCommand == <<Word("/usr/bin/python3"), [dir |-> "other", stem |-> "a", ext |-> "py"]>>
DashEntries ==
  { Entry(c, t, x) : c \in {RunnerCommand("a"), DirectCommand("b"), DirCommand, ForeignCommand},
                     t \in {"", "a", "c"}, x \in {"e1", "e2"} }

EngineIdle ==
  /\ ALLOW_AUTO_INSTALL = TRUE
  /\ IS_ROOT = FALSE
  /\ MAX_PASSES = 0
  /\ launcher = "cron"
  /\ RUN_CONTEXT = None
  /\ config = "unread"
  /\ pc = "exited"
  /\ todo = <<>>
  /\ passes = 0
  /\ attempts = <<>>
  /\ install = NoInstall
  /\ rc = 0
  /\ exitCode = 0
  /\ policy = "unreached"
  /\ events = <<>>
  /\ script = NoScript
  /\ resolution = NoResolution

DashInit ==
  /\ EngineIdle
  /\ scripts \in SUBSET {"a", "b"}
  /\ user_cron \in SeqsUpTo(DashEntries, MaxEntries)
  /\ crontab = user_cron
  /\ jobs = <<>>
  /\ listed = FALSE
  /\ previous = NoListing
  /\ logs \in LogDirs
  /\ content = [n \in scripts |-> "text"]
  /\ response = NoResponse
  /\ clock = 0
  /\ run = NoRun

DashNext == Index

SpecDash == DashInit /\ [][DashNext]_vars

\* ---------------------------------------------------- dashboard requests
\* a str is the sequence of its characters
Chars(n) ==
  CASE n = "a" -> <<"a">>
    [] n = "a." -> <<"a", ".">>
    [] n = "a_" -> <<"a", "_">>
    [] n = "b" -> <<"b">>
    [] n = "c" -> <<"c">>
Str(cs) == CHOOSE n \in {StrOrder[i] : i \in 1..Len(StrOrder)} : Chars(n) = cs

\* the characters of this model the class [A-Za-z0-9_\-] holds
SafeChars == {"a", "b", "c", "p", "y", "_", "-"}

\* re.sub(r"[^A-Za-z0-9_\-]", "_", raw_name)
sanitize(cs) == [i \in 1..Len(cs) |-> IF cs[i] \in SafeChars THEN cs[i] ELSE "_"]

\* if name.endswith(".py"): name = name[:-3]
strip_py(cs) ==
  IF Len(cs) >= 3 /\ SubSeq(cs, Len(cs) - 2, Len(cs)) = <<".", "p", "y">>
  THEN SubSeq(cs, 1, Len(cs) - 3)
  ELSE cs

\* the names requests carry: in the form of add(), in the URL of edit() and delete()
RawNames == {"a", "a."}
UrlNames == {"a", "a."}

\* a step that changes what rebuild_jobs reads leaves no current listing
Unlisted == jobs' = <<>> /\ listed' = FALSE /\ previous' = NoListing

\* add(), POST
Add ==
  /\ \E raw \in RawNames :
       LET n == Str(strip_py(sanitize(Chars(raw))))
       IN IF n \in scripts
          THEN /\ response' = Response("add", 409, "already exists")
               /\ UNCHANGED <<scripts, content, jobs, listed, previous>>
          ELSE /\ scripts' = scripts \cup {n}
               /\ content' = [k \in scripts' |-> IF k = n THEN "" ELSE content[k]]
               /\ response' = Response("add", 302, "")
               /\ Unlisted
  /\ UNCHANGED <<user_cron, crontab, logs, clock, run>>
  /\ UNCHANGED engineVars

\* CronItem of user_cron.new(command=...): every field of the schedule is "*"
DefaultExpr == "* * * * *"

\* the schedules the form of edit() sends; setall accepts "e1" and raises on "bad"
Schedules == {"disabled", "e1", "bad"}
is_disabled(schedule) == schedule \in {"disabled", "DISABLED"}
setall_accepts(schedule) == schedule = "e1"

\* position of the first entry of cron with the comment n, 0 when there is none
first_job(cron, n) ==
  IF \E i \in 1..Len(cron) : cron[i].tag = n
  THEN CHOOSE i \in 1..Len(cron) : cron[i].tag = n /\ \A j \in 1..(i - 1) : cron[j].tag # n
  ELSE 0

\* user_cron.remove(job) for the entry at position i
remove_at(cron, i) == [k \in 1..(Len(cron) - 1) |-> IF k < i THEN cron[k] ELSE cron[k + 1]]

\* edit(), POST: the script is saved first; "DISABLED" removes the entry and
\* writes only when there was one; otherwise the entry is replaced in user_cron
\* by a new one, and the crontab is written when setall accepted the schedule
Edit ==
  /\ \E n \in UrlNames, schedule \in Schedules :
       LET j == first_job(user_cron, n)
           removed == IF j = 0 THEN user_cron ELSE remove_at(user_cron, j)
       IN /\ is_disabled(schedule) \/ Len(removed) < MaxEntries
          /\ scripts' = scripts \cup {n}
          /\ content' = [k \in scripts' |-> IF k = n THEN "text" ELSE content[k]]
          /\ IF is_disabled(schedule)
             THEN /\ user_cron' = removed
                  /\ crontab' = IF j = 0 THEN crontab ELSE removed
                  /\ response' = Response("edit", 302, "schedule is DISABLED")
             ELSE IF setall_accepts(schedule)
             THEN /\ user_cron' = Append(removed, Entry(RunnerCommand(n), n, schedule))
                  /\ crontab' = user_cron'
                  /\ response' = Response("edit", 302, "schedule set")
             ELSE /\ user_cron' = Append(removed, Entry(RunnerCommand(n), n, DefaultExpr))
                  /\ crontab' = crontab
                  /\ response' = Response("edit", 302, "Invalid cron schedule")
  /\ Unlisted
  /\ UNCHANGED <<logs, clock, run>>
  /\ UNCHANGED engineVars

RECURSIVE remove_live(_, _, _)
\* for job in user_cron: if job.comment == name: user_cron.remove(job), when
\* the iterator walks the list that the removals shorten
remove_live(cron, i, n) ==
  IF i > Len(cron) THEN cron
  ELSE IF cron[i].tag = n THEN remove_live(remove_at(cron, i), i + 1, n)
  ELSE remove_live(cron, i + 1, n)

\* the same loop when the iterator walks a copy of the list
remove_snapshot(cron, n) == SelectSeq(cron, LAMBDA e : e.tag # n)

\* delete(): which of the two the iterator of CronTab does depends on the
\* version of the library
Delete ==
  /\ \E n \in UrlNames, live \in BOOLEAN :
       /\ scripts' = scripts \ {n}
       /\ content' = [k \in scripts' |-> content[k]]
       /\ logs' = [k \in DOMAIN logs \ {n} |-> logs[k]]
       /\ user_cron' = IF live THEN remove_live(user_cron, 1, n)
                               ELSE remove_snapshot(user_cron, n)
       /\ crontab' = user_cron'
  /\ response' = Response("delete", 302, "deleted")
  /\ Unlisted
  /\ UNCHANGED <<clock, run>>
  /\ UNCHANGED engineVars

\* another process: an engine that ended a scheduled run of its job with
\* success removes the entries of the job from the crontab
EngineDisables ==
  /\ LET d == disable_cron_by_comment(name, crontab, "ok", "ok")
     IN /\ d.store # crontab
        /\ crontab' = d.store
  /\ Unlisted
  /\ UNCHANGED <<scripts, user_cron, logs, content, response, clock, run>>
  /\ UNCHANGED engineVars

\* the entries the crontab holds when the dashboard starts: one an earlier
\* edit() wrote, one the user wrote with a comment of their own
OpsEntries ==
  { Entry(RunnerCommand("a"), "a", "e1"), Entry(DirectCommand("b"), "a.", "e2") }

\* the dashboard has been started: user_cron = CronTab(user=True) has read the crontab
OpsInit ==
  /\ EngineIdle
  /\ scripts \in SUBSET {"a", "a."}
  /\ content = [n \in scripts |-> "text"]
  /\ crontab \in SeqsUpTo(OpsEntries, MaxEntries)
  /\ user_cron = crontab
  /\ jobs = <<>>
  /\ listed = FALSE
  /\ previous = NoListing
  /\ logs \in LogDirs
  /\ response = NoResponse
  /\ clock = 0
  /\ run = NoRun

OpsNext == Index \/ Add \/ Edit \/ Delete \/ EngineDisables

SpecOps == OpsInit /\ [][OpsNext]_vars

\* ------------------------------------------------------ LaunchCoordinator
\* time is counted in ticks of 0.25 s
RUN_WAIT_STEP == 1
RUN_WAIT_MAX == 32

\* _log_mtime_epoch: the whole seconds of the modification time, 0 without file
log_mtime_epoch(lg, n) == IF n \in DOMAIN lg THEN lg[n] \div TicksPerSecond ELSE 0

launch_job_opens_first(n, files, lg, now) ==
  [ ok |-> n \in files, msg |-> IF n \in files THEN "launched" ELSE "not found",
    logs |-> IF n \in DOMAIN lg THEN lg
             ELSE [k \in DOMAIN lg \cup {n} |-> IF k = n THEN now ELSE lg[k]],
    spawned |-> IF n \in files THEN 1 ELSE 0 ]
\* _launch_job: (ok, msg), the log directory it leaves (open(log_path, "a")
\* creates a missing file and leaves an existing one as it is) and the number
\* of engine processes it starts
launch_job(n, files, lg, now) ==
  IF n \notin files
  THEN [ok |-> FALSE, msg |-> "not found", logs |-> lg, spawned |-> 0]
  ELSE [ ok |-> TRUE, msg |-> "launched",
         logs |-> IF n \in DOMAIN lg THEN lg
                  ELSE [k \in DOMAIN lg \cup {n} |-> IF k = n THEN now ELSE lg[k]],
         spawned |-> 1 ]

\* run_now() down to the while loop, as the dashboard sees it
RunNowRequest ==
  /\ run.pc = "idle"
  /\ \E n \in {"a"} :
       LET l == launch_job(n, scripts, logs, clock)
           r == [ pc |-> "polling", name |-> n, prev |-> log_mtime_epoch(logs, n),
                  mtime |-> IF n \in DOMAIN logs THEN logs[n] ELSE -1,
                  start |-> clock, deadline |-> clock + RUN_WAIT_MAX,
                  spawned |-> l.spawned ]
       IN /\ logs' = l.logs
          /\ IF l.ok
             THEN /\ run' = r
                  /\ response' = response
             ELSE /\ run' = [r EXCEPT !.pc = "done", !.deadline = 0]
                  /\ response' = Response("run_now", 302, l.msg)
  /\ IF logs' = logs THEN UNCHANGED <<jobs, listed, previous>> ELSE Unlisted
  /\ UNCHANGED <<scripts, user_cron, crontab, content, clock>>

\* run_now() when the engine process it starts is not followed
RunNow ==
  /\ RunNowRequest
  /\ UNCHANGED engineVars

\* one turn of the while loop of run_now, and the return once it is left
Poll ==
  /\ run.pc = "polling"
  /\ IF clock < run.deadline /\ ~(log_mtime_epoch(logs, run.name) > run.prev)
     THEN /\ clock' = clock + RUN_WAIT_STEP
          /\ UNCHANGED <<run, response>>
     ELSE /\ run' = [run EXCEPT !.pc = "done"]
          /\ response' = Response("run_now", 302, "launched")
          /\ clock' = clock
  /\ UNCHANGED <<scripts, user_cron, crontab, jobs, listed, previous, logs, content>>
  /\ UNCHANGED engineVars

\* the engine process appends output to the log it was started with
EngineWrites ==
  /\ run.pc = "polling"
  /\ run.spawned > 0
  /\ logs[run.name] # clock
  /\ logs' = [logs EXCEPT ![run.name] = clock]
  /\ Unlisted
  /\ UNCHANGED <<scripts, user_cron, crontab, content, response, clock, run>>
  /\ UNCHANGED engineVars

\* the moments at which the request arrives: each quarter of one second
ClockStarts == {8, 9, 10, 11}

RunInit ==
  /\ EngineIdle
  /\ scripts \in SUBSET {"a"}
  /\ content = [n \in scripts |-> "text"]
  /\ crontab = <<>>
  /\ user_cron = crontab
  /\ jobs = <<>>
  /\ listed = FALSE
  /\ previous = NoListing
  /\ clock \in ClockStarts
  /\ logs \in {NoFiles} \cup {[n \in {"a"} |-> t] : t \in 0..clock}
  /\ response = NoResponse
  /\ run = NoRun

RunNext == RunNow \/ Poll \/ EngineWrites

SpecRun == RunInit /\ [][RunNext]_vars

\* ------------------------------------------- the two ways an engine starts
\* a crontab line a user wrote by hand, with the marker set in front of the
\* command: RUN_CONTEXT=cron /usr/bin/python3 runner.py <script> >> <log> 2>&1
MarkedCommand(n) == <<Word("RUN_CONTEXT=cron")>> \o RunnerCommand(n)

\* the environment cron gives the command of an entry: assignments in front of
\* the command and nothing else (the crontab of this model has no variable lines)
cron_environ(cmd) ==
  [ RUN_CONTEXT |-> IF Head(cmd) = Word("RUN_CONTEXT=cron") THEN "cron" ELSE None,
    PYTHONUNBUFFERED |-> None ]

\* the command starts runner.py on the script of job n
runs_engine(cmd, n) == cmd \in {RunnerCommand(n), MarkedCommand(n)}

\* RUNNER_MAX_PASSES of the engines the model follows
TriggerPasses == 1

\* a new engine process: the module constants are evaluated and main() is entered
EngineStarts(by, environ) ==
  /\ launcher' = by
  /\ RUN_CONTEXT' = environ.RUN_CONTEXT
  /\ MAX_PASSES' = TriggerPasses
  /\ config' = "unread"
  /\ pc' = "start"
  /\ todo' = <<>>
  /\ passes' = 0
  /\ attempts' = <<>>
  /\ install' = NoInstall
  /\ rc' = 0
  /\ exitCode' = 0
  /\ policy' = "unreached"
  /\ script' \in ScriptSources
  /\ UNCHANGED <<ALLOW_AUTO_INSTALL, IS_ROOT, events, resolution>>

\* cron runs an entry of the crontab that starts the engine on its job; the
\* model follows the first engine process
CronRuns ==
  /\ EngineIdle
  /\ \E i \in 1..Len(crontab) :
       /\ runs_engine(crontab[i].command, name)
       /\ EngineStarts("cron", cron_environ(crontab[i].command))
  /\ UNCHANGED crontab
  /\ UNCHANGED dashVars

\* run_now() for the job of the engine, with the process Popen starts
ManualLaunch ==
  /\ RunNowRequest
  /\ IF run'.spawned > 0
     THEN /\ EngineIdle
          /\ EngineStarts("coordinator", launch_job_env)
     ELSE UNCHANGED engineVars

\* the entries of the crontab when the dashboard starts: one an earlier edit()
\* wrote and one written by hand with the marker
TriggerEntries ==
  { Entry(RunnerCommand("a"), "a", "e1"), Entry(MarkedCommand("a"), "a", "e1") }

TriggerInit ==
  /\ EngineIdle
  /\ scripts \in SUBSET {"a"}
  /\ content = [n \in scripts |-> "text"]
  /\ crontab \in SeqsUpTo(TriggerEntries, 1)
  /\ user_cron = crontab
  /\ jobs = <<>>
  /\ listed = FALSE
  /\ previous = NoListing
  /\ logs = NoFiles
  /\ response = NoResponse
  /\ clock = 0
  /\ run = NoRun

TriggerNext ==
  \/ Edit \/ CronRuns \/ ManualLaunch \/ Poll
  \/ Start \/ PreflightStep \/ RunPass \/ LoopExhausted \/ Finish

SpecTrigger == TriggerInit /\ [][TriggerNext]_vars

\* ---------------------------------------------------------------- claims
finished == pc \in {"policy", "exited"}
Last == attempts[Len(attempts)]
Resolved(a) == a.kind = "import_error" /\ a.missingDependency # <<>> /\ a.installOutcome = "installed"
Unresolved(a) == a.kind = "import_error" /\ a.missingDependency # <<>> /\ a.installOutcome = "failed"
Unparseable(a) == a.kind = "import_error" /\ a.missingDependency = <<>>
Fatal(a) == Unresolved(a) \/ Unparseable(a) \/ a.kind = "crash"
NonZeroEnd == /\ finished
              /\ pc = "policy" => rc # 0
              /\ pc = "exited" => exitCode # 0
TaggedWith(store, n) == {i \in 1..Len(store) : store[i].tag = n}
DisabledEvent == Event("schedule_disabled_after_success", name)

\* C1: a pass is followed by another pass only if it ended in a missing
\* dependency whose identifier was extracted and whose resolution succeeded; a
\* pass that ended in an ImportError without identifier, in a failed resolution
\* or in any other exception is the last pass, it is the only attempt recorded
\* for it, and the engine ends with a non-zero code.
C1_RetryOnlyAfterResolved ==
  /\ passes = Len(attempts)
  /\ \A i \in 1..Len(attempts) :
       /\ attempts[i].passNumber = i
       /\ i < Len(attempts) => Resolved(attempts[i])
       /\ Fatal(attempts[i]) => i = Len(attempts) /\ NonZeroEnd
       /\ attempts[i].installOutcome # "none" <=> attempts[i].missingDependency # <<>>

C1_Witness ==
  /\ pc = "exited" /\ Len(attempts) = 2
  /\ Resolved(attempts[1]) /\ Unresolved(attempts[2])
  /\ exitCode = 1

\* C2: when k passes in a row end in a missing dependency that resolves and the
\* next pass succeeds (k + 1 <= MAX_PASSES), the engine has run exactly k + 1
\* passes, made exactly k install attempts in them and ends with code 0; as long
\* as fewer than MAX_PASSES passes have all ended in a resolved dependency the
\* engine, once it is in the pass loop, goes on to the next pass.
C2_PassesAndInstalls ==
  \A k \in 0..(MaxCap + 1) :
    /\ ( /\ Len(attempts) = k + 1
         /\ \A i \in 1..k : Resolved(attempts[i])
         /\ attempts[k + 1].kind = "ok" )
       => /\ k + 1 <= MAX_PASSES
          /\ passes = k + 1
          /\ Cardinality({i \in 1..Len(attempts) : attempts[i].installOutcome # "none"}) = k
          /\ finished
          /\ pc = "policy" => rc = 0
          /\ pc = "exited" => exitCode = 0
    /\ ( /\ Len(attempts) = k
         /\ \A i \in 1..k : Resolved(attempts[i])
         /\ k < MAX_PASSES
         /\ pc \notin {"start", "usage", "preflight", "crashed"} )
       => pc = "loop"

C2_Witness ==
  /\ pc = "exited" /\ exitCode = 0 /\ passes = 3 /\ Len(attempts) = 3
  /\ Resolved(attempts[1]) /\ Resolved(attempts[2])
  /\ attempts[1].missingDependency # attempts[2].missingDependency
  /\ attempts[3].kind = "ok"

AllReveal == \A i \in 1..Len(attempts) : attempts[i].missingDependency # <<>>

\* C3 as stated: a job whose every pass reveals an identifier that cannot be
\* resolved stops after exactly MAX_PASSES passes with a non-zero status.
C3_Original ==
  ( /\ pc = "exited" /\ attempts # <<>>
    /\ \A i \in 1..Len(attempts) : Unresolved(attempts[i]) )
  => passes = MAX_PASSES /\ exitCode # 0

\* C3 amended: the engine never runs more than MAX_PASSES passes; a job whose
\* every pass reveals an identifier stops after exactly MAX_PASSES passes (none
\* for a cap below 1), with return code 1, when every identifier resolves, and
\* stops on the pass that reveals it, with a non-zero code, when one does not.
C3_CapOrFatal ==
  /\ passes <= Max0(MAX_PASSES)
  /\ (finished /\ AllReveal) =>
       /\ (\A i \in 1..Len(attempts) : Resolved(attempts[i]))
            => passes = Max0(MAX_PASSES) /\ (pc = "policy" => rc = 1)
                                         /\ (pc = "exited" => exitCode = 1)
       /\ \A i \in 1..Len(attempts) :
            Unresolved(attempts[i]) => i = Len(attempts) /\ pc = "exited" /\ exitCode # 0

C3_Witness ==
  /\ pc = "exited" /\ MAX_PASSES = 3 /\ passes = 3 /\ exitCode = 1
  /\ \A i \in 1..3 : Resolved(attempts[i])

\* C4: when a pass ends in a termination request with integer status n the
\* engine exits with exactly n, whatever the post-success block does, and a
\* request without a code makes it exit with 0.
C4_ExitFidelity ==
  (attempts # <<>> /\ Last.kind = "exit" /\ Last.codeKind \in {"int", "none"}) =>
     /\ finished
     /\ LET n == IF Last.codeKind = "int" THEN Last.code ELSE 0
        IN /\ rc = n
           /\ pc = "exited" => exitCode = n

C4_Witness ==
  /\ pc = "exited" /\ Len(attempts) = 2 /\ Last.kind = "exit" /\ Last.codeKind = "int"
  /\ Last.code = 7 /\ exitCode = 7

\* C5 as stated: after a scheduled run with rc = 0 and runUntilSuccess = true
\* has exited, no entry of the schedule store is tagged with the job's name and
\* exactly one schedule_disabled_after_success event has been appended.
C5_Original ==
  (pc = "exited" /\ policy # "unreached" /\ RUN_CONTEXT = "cron" /\ rc = 0 /\ config = "true")
  => /\ TaggedWith(crontab, name) = {}
     /\ events = <<DisabledEvent>>

\* C5 amended: in a scheduled run with rc = 0 and runUntilSuccess = true the
\* engine tries to remove the job's entries; when the rewrite of the schedule
\* store succeeds no entry tagged with the job's name is left, the entries left
\* are entries it had, and exactly one schedule_disabled_after_success event is
\* appended (none when the event log cannot be written); when it fails the
\* store and the event log stay as they were.
C5_AutoDisable ==
  [][ (pc = "policy" /\ RUN_CONTEXT = "cron" /\ rc = 0 /\ config' = "true") =>
        \/ /\ policy' \in {"disabled", "disabled_event_lost"}
           /\ TaggedWith(crontab', name) = {}
           /\ crontab' \in {<<>>, SelectSeq(crontab, LAMBDA e : e.tag # name)}
           /\ events' = IF policy' = "disabled" THEN Append(events, DisabledEvent) ELSE events
        \/ /\ policy' = "failed"
           /\ crontab' = crontab
           /\ events' = events ]_vars

C5_Witness ==
  /\ pc = "exited" /\ policy = "disabled" /\ config = "true"
  /\ crontab = <<Entry(RunnerCommand("b"), "b", "e1")>>
  /\ events = <<DisabledEvent>>

C7_DisableFailureKeepsCode ==
  (pc = "exited" /\ policy = "failed") => exitCode = rc /\ exitCode = 0

C7_Witness ==
  /\ pc = "exited" /\ policy = "failed" /\ exitCode = 0
  /\ TaggedWith(crontab, name) # {}

\* C8 as stated: with ALLOW_AUTO_INSTALL = False no step of the engine, in
\* preflight or in the pass loop, runs pip or apt-get, and no resolution
\* succeeds.
C8_NoInstallWhenDisabled ==
  ~ALLOW_AUTO_INSTALL =>
     /\ install = NoInstall
     /\ \A i \in 1..Len(attempts) : attempts[i].installOutcome # "installed"

IsScriptPy(t) == t.ext = "py" /\ t.dir = "scripts"

\* entry e stands for the job n: its command names the script directory, and n
\* is its tag or, without a tag, the stem of its first script-path token
DerivesTo(e, n) ==
  /\ n # ""
  /\ \E t \in 1..Len(e.command) : e.command[t].dir = "scripts"
  /\ \/ e.tag = n
     \/ /\ e.tag = ""
        /\ \E t \in 1..Len(e.command) :
             /\ IsScriptPy(e.command[t]) /\ e.command[t].stem = n
             /\ \A u \in 1..(t - 1) : ~IsScriptPy(e.command[u])
Matching(n) == {i \in 1..Len(user_cron) : DerivesTo(user_cron[i], n)}
RecordsOf(n) == {k \in 1..Len(jobs) : jobs[k].name = n}
MaxOf(S) == CHOOSE x \in S : \A y \in S : y <= x
MinOf(S) == CHOOSE x \in S : \A y \in S : x <= y
JobNames == {StrOrder[i] : i \in 1..Len(StrOrder)}
PyTokens(e) == {t \in 1..Len(e.command) : e.command[t].ext = "py"}
FirstPy(e) == IF PyTokens(e) = {} THEN NoPath ELSE e.command[MinOf(PyTokens(e))]

\* C9: every script has exactly one record in the list rebuild_jobs returns,
\* with has_script true, has_cron true exactly when some entry stands for the
\* script, and schedule None without such an entry and else the expression of
\* the last such entry of the store.
C9_ScriptRecords ==
  listed =>
    \A n \in scripts :
      /\ Cardinality(RecordsOf(n)) = 1
      /\ \A k \in RecordsOf(n) :
           /\ jobs[k].has_script
           /\ jobs[k].has_cron <=> Matching(n) # {}
           /\ jobs[k].schedule = IF Matching(n) = {} THEN None
                                 ELSE user_cron[MaxOf(Matching(n))].expression

C9_Witness ==
  /\ listed /\ "a" \in scripts /\ "b" \in scripts
  /\ Cardinality(Matching("a")) = 2
  /\ user_cron[1].expression # user_cron[2].expression
  /\ user_cron[1].tag # user_cron[2].tag
  /\ Matching("b") = {}
  /\ Len(jobs) = 2

Orphans == {n \in JobNames : n \notin scripts /\ Matching(n) # {}}

\* C10 as stated: every entry that stands for a job without script gives exactly
\* one record of that name, with has_script false, has_cron true, the entry's
\* expression and the entry's first ".py" token (or the empty path); every
\* record has has_script or has_cron, and has_script exactly when the script
\* exists.
C10_Original ==
  listed =>
    /\ \A n \in Orphans : \A i \in Matching(n) :
         /\ Cardinality(RecordsOf(n)) = 1
         /\ \A k \in RecordsOf(n) :
              /\ ~jobs[k].has_script /\ jobs[k].has_cron
              /\ jobs[k].schedule = user_cron[i].expression
              /\ jobs[k].script_path = FirstPy(user_cron[i])
    /\ \A k \in 1..Len(jobs) :
         /\ jobs[k].has_script \/ jobs[k].has_cron
         /\ jobs[k].has_script <=> jobs[k].name \in scripts

\* C10 amended: the entries that stand for a job without script give exactly one
\* record of that name, with has_script false, has_cron true, the expression of
\* the last of these entries and the first ".py" token (or the empty path) of
\* the first of them; every record has has_script or has_cron, and has_script
\* exactly when the script exists.
C10_OrphanRecords ==
  listed =>
    /\ \A n \in Orphans :
         /\ Cardinality(RecordsOf(n)) = 1
         /\ \A k \in RecordsOf(n) :
              /\ ~jobs[k].has_script /\ jobs[k].has_cron
              /\ jobs[k].schedule = user_cron[MaxOf(Matching(n))].expression
              /\ jobs[k].script_path = FirstPy(user_cron[MinOf(Matching(n))])
    /\ \A k \in 1..Len(jobs) :
         /\ jobs[k].has_script \/ jobs[k].has_cron
         /\ jobs[k].has_script <=> jobs[k].name \in scripts

C10_Witness ==
  /\ listed /\ scripts = {"b"}
  /\ Cardinality(Matching("c")) = 2
  /\ user_cron[1].expression # user_cron[2].expression
  /\ FirstPy(user_cron[1]) = RunnerTok
  /\ FirstPy(user_cron[2]) = NoPath
  /\ Len(jobs) = 2 /\ jobs[2].name = "c" /\ jobs[2].script_path = RunnerTok

SortedByName(list) ==
  \A i \in 1..Len(list) : \A j \in 1..Len(list) :
    i < j => Rank(list[i].name) < Rank(list[j].name)

StandsIn(store, n) == {i \in 1..Len(store) : DerivesTo(store[i], n)}

\* C12 as stated: a list rebuild_jobs has just returned shows the stores as they
\* are: has_script exactly for the scripts that exist, and a job no entry of the
\* crontab stands for, because another process has removed its entries, is
\* listed with has_cron false. (A record that shows the entry of a rejected
\* edit, which the dashboard has not written, is left aside.)
C12_FreshRead ==
  listed =>
    \A k \in 1..Len(jobs) :
      /\ jobs[k].has_script <=> jobs[k].name \in scripts
      /\ (jobs[k].has_cron /\ jobs[k].schedule # DefaultExpr)
           => StandsIn(crontab, jobs[k].name) # {}

SafeName(n) == \A i \in 1..Len(Chars(n)) : Chars(n)[i] \in SafeChars

\* C15 as stated: every record rebuild_jobs returns has a name made of letters,
\* digits, underscores and hyphens only, and a request to add() leaves every
\* script that exists as it is.
C15_SafeNames ==
  [][ /\ listed' => \A k \in 1..Len(jobs') : SafeName(jobs'[k].name)
      /\ response'.handler = "add" =>
           \A n \in scripts : n \in scripts' /\ content'[n] = content[n] ]_vars

\* the modification time of the log of the running request, -1 without file
LogTime == IF run.name \in DOMAIN logs THEN logs[run.name] ELSE -1

\* C13 as stated: run_now returns with "launched"; when the modification time
\* of the log has changed since prev was taken, at a moment that leaves one
\* polling step before the ceiling, it returns before the ceiling has elapsed
\* and at most one polling step after the change; when the modification time
\* has not changed, it returns only once the whole ceiling has elapsed.
C13_LivenessWait ==
  [][ (run.pc = "polling" /\ run'.pc = "done") =>
        /\ response'.flash = "launched"
        /\ (LogTime # run.mtime /\ LogTime + RUN_WAIT_STEP < run.deadline)
             => /\ clock < run.deadline
                /\ clock <= LogTime + RUN_WAIT_STEP
        /\ LogTime = run.mtime => clock >= run.deadline ]_vars

\* C14: a request to run a job whose script does not exist is answered at once
\* with "not found": it starts no engine process, neither creates nor changes
\* a log file, does not wait and never enters the polling loop.
C14_NotFound ==
  [][ (run.pc = "idle" /\ run'.pc # "idle" /\ run'.name \notin scripts) =>
        /\ run'.pc = "done"
        /\ response' = Response("run_now", 302, "not found")
        /\ run'.spawned = 0
        /\ logs' = logs
        /\ clock' = clock ]_vars

C14_Witness ==
  /\ run.pc = "done" /\ run.name = "a" /\ "a" \notin scripts
  /\ response.flash = "not found"
  /\ run.spawned = 0
  /\ "a" \notin DOMAIN logs
  /\ run.prev = 0

\* what is left of an invocation: the position of main(), the modules preflight
\* has still to visit and the passes the cap still allows
Stage ==
  CASE pc = "start" -> 4
    [] pc = "preflight" -> 3
    [] pc = "loop" -> 2
    [] pc = "policy" -> 1
    [] OTHER -> 0
Variant == Stage * (MaxCap + 4) + Len(todo) + Max0(MAX_PASSES - passes)

CapReached ==
  /\ pc = "exited" /\ MAX_PASSES >= 1 /\ Len(attempts) = MAX_PASSES
  /\ \A i \in 1..Len(attempts) : Resolved(attempts[i])

\* C16 as stated: in every state the number of passes started is at most
\* MAX_PASSES, whatever its value; every step of the engine brings it nearer to
\* its end; and when MAX_PASSES passes have each ended in a resolved dependency
\* the engine exits non-zero.
C16_Original ==
  [][ /\ passes' <= MAX_PASSES
      /\ Variant' < Variant
      /\ CapReached' => exitCode' # 0 ]_vars

\* C16 amended: in every state the number of passes started is at most
\* MAX_PASSES, and 0 for a MAX_PASSES below 1; every step of the engine lowers
\* a natural number, so that the engine and its pass loop terminate when each
\* pass and each install attempt does; and when MAX_PASSES passes have each
\* ended in a resolved dependency the engine exits non-zero.
C16_BoundedPasses ==
  [][ /\ passes' <= Max0(MAX_PASSES)
      /\ Variant >= 0 /\ Variant' >= 0 /\ Variant' < Variant
      /\ CapReached' => exitCode' # 0 ]_vars

C16_Witness ==
  /\ CapReached /\ MAX_PASSES = 2 /\ passes = 2
  /\ exitCode = 1 /\ policy = "skipped"
  /\ attempts[1].missingDependency # attempts[2].missingDependency

Steps == resolution.steps
IsPip(s) == s.tool = "pip"
IsApt(s) == s.tool \in {"apt-get install", "apt-get update"}
IsInstall(s) == s.tool \in {"pip", "apt-get install"}
AptInstalls == {i \in 1..Len(Steps) : Steps[i].tool = "apt-get install"}
AptUpdates == {i \in 1..Len(Steps) : Steps[i].tool = "apt-get update"}

\* C17 as stated: apt-get runs only as root and only after pip has been run
\* for every candidate name without one of them installing and importing;
\* resolve returns True only when its last step is a successful import probe
\* of the missing identifier that directly follows an install command that
\* returned 0; and apt-get update runs at most once, directly after a first
\* apt-get install that failed.
C17_ResolutionOrder ==
  /\ \A i \in 1..Len(Steps) :
       IsApt(Steps[i]) =>
         /\ IS_ROOT
         /\ \A j \in 1..Len(Steps) : IsPip(Steps[j]) => j < i
         /\ \A j \in 1..(i - 1) : Steps[j].tool = "import" => ~Steps[j].ok
  /\ resolution.ok =>
       /\ Len(Steps) >= 2
       /\ Steps[Len(Steps)].tool = "import" /\ Steps[Len(Steps)].ok
       /\ Steps[Len(Steps)].arg = resolution.missing
       /\ IsInstall(Steps[Len(Steps) - 1]) /\ Steps[Len(Steps) - 1].ok
  /\ Cardinality(AptUpdates) <= 1
  /\ \A i \in AptUpdates :
       /\ i - 1 \in AptInstalls /\ ~Steps[i - 1].ok
       /\ \A j \in AptInstalls : j >= i - 1

\* C18 as stated: every pip command of a resolution carries --user exactly
\* when the engine is not root, and --break-system-packages exactly when the
\* environment is externally managed and the engine is not in a venv.
C18_InstallScope ==
  \A i \in 1..Len(Steps) :
    IsPip(Steps[i]) =>
      /\ "--user" \in Steps[i].flags <=> ~IS_ROOT
      /\ "--break-system-packages" \in Steps[i].flags
           <=> (resolution.env.managed /\ ~resolution.env.venv)

\* C19 as stated: no outcome of the header parse, the import parse or an
\* upfront resolution ends the engine: preflight leaves the exit code alone,
\* the engine ends only after the pass loop, and with a cap of 1 or more only
\* after pass 1 has run.
C19_PreflightNeverFatal ==
  /\ pc # "crashed"
  /\ pc = "preflight" => exitCode = 0 /\ rc = 0 /\ passes = 0
  /\ (pc \in {"policy", "exited"} /\ MAX_PASSES >= 1) => passes >= 1

\* C20 as stated: whatever the length of the script, every identifier of the
\* hint line of its header is in the list main() hands to ensure_importables,
\* and that list has been worked off before pass 1 starts.
C20_HintResolved ==
  [][ /\ (pc = "start" /\ pc' # "usage") =>
           \A i \in 1..Len(script.hint) : \E k \in 1..Len(todo') : todo'[k] = script.hint[i]
      /\ passes' > 0 => todo' = <<>> ]_vars

Tagged(cron, n) == { i \in 1..Len(cron) : cron[i].tag = n }
\* the step is an edit of job n with a schedule: edit() appends the new entry
\* of n to user_cron
EditOf(n) ==
  /\ response'.handler = "edit"
  /\ Len(user_cron') > 0
  /\ user_cron'[Len(user_cron')].tag = n

\* C22 as stated: when the crontab holds no entry of the engine's job (the
\* engine removed them), a step puts an entry of that job with a schedule of
\* its own back only if it is an edit of that job; an edit or a delete of
\* another job never does.
C22_NoResurrection ==
  [][ ( /\ Tagged(crontab, name) = {}
        /\ \E i \in Tagged(crontab', name) : crontab'[i].expression # DefaultExpr )
      => EditOf(name) ]_vars

\* C23 as stated: an edit that is answered with "Invalid cron schedule"
\* leaves the crontab and the entries the dashboard holds (the ones
\* rebuild_jobs reports and every later write persists) as they were, and
\* brings in no entry with the default expression.
C23_InvalidEditKeepsSchedule ==
  [][ (response'.handler = "edit" /\ response'.flash = "Invalid cron schedule")
      => /\ user_cron' = user_cron
         /\ \A i \in 1..Len(user_cron') :
              user_cron'[i].expression = DefaultExpr
                => \E k \in 1..Len(user_cron) : user_cron[k] = user_cron'[i] ]_vars

\* C21 as stated: an engine that cron starts from an entry edit() wrote runs
\* with RUN_CONTEXT = cron, an engine the LaunchCoordinator starts runs without
\* it, and an engine the LaunchCoordinator started never reaches the removal
\* of the schedule.
C21_ContextMarker ==
  [][ /\ ( /\ pc # "start" /\ pc' = "start" /\ launcher' = "cron"
           /\ \A i \in 1..Len(crontab) :
                runs_engine(crontab[i].command, name)
                  => crontab[i].command = RunnerCommand(name) )
         => RUN_CONTEXT' = "cron"
      /\ (pc # "start" /\ pc' = "start" /\ launcher' = "coordinator")
         => RUN_CONTEXT' # "cron"
      /\ launcher' = "coordinator" => policy' \in {"unreached", "skipped"} ]_vars

====
